---- MODULE Spec2Model ----
(***************************************************************************)
(* A model of the two scripts of the repository.                           *)
(*                                                                         *)
(*   Flow B  gemini_streaming_parallel.py: parallel_generate starts one    *)
(*           stream_and_print task per prompt on the asyncio event loop    *)
(*           and gathers them; each task prints a header, the fragments    *)
(*           of stream_generate, and an end marker.                        *)
(*   Flow A  criticize.py: main gathers context through run_command and    *)
(*           get_file_content, filters the staged diff by substring, and   *)
(*           calls the generation API once.                                *)
(*                                                                         *)
(* Text is a sequence of atoms (short strings); "s in text" is modelled    *)
(* as "some atom of text carries the substring", str.strip() as "drop the  *)
(* whitespace atoms".                                                      *)
(***************************************************************************)
EXTENDS Integers, Sequences, FiniteSets

\* ---------------------------------------------------------------- bounds

\* The longest prompt list handed to parallel_generate.
MaxPrompts == 2

\* The most fragments the API delivers on one stream.
MaxFrags == 2

VARIABLES
    \* Flow B
    prompts,    \* the list handed to parallel_generate
    pgpc,       \* where parallel_generate stands
    ready,      \* the event loop's FIFO of tasks created and not yet started
    running,    \* the task the event loop is executing: <<>> or <<index>>
    pc,         \* per task: where stream_and_print stands
    gen,        \* per task: where the stream_generate generator stands
    exc,        \* per task: the exception the API raised, or "none"
    delivered,  \* per task: the chunk texts the API has delivered
    yielded,    \* per task: the fragments stream_generate has yielded
    out         \* everything printed, in printing order

varsB == <<prompts, pgpc, ready, running, pc, gen, exc, delivered, yielded, out>>

VARIABLES
    \* Flow A
    env,                   \* what the script finds: the tool, the repository, the files
    apc,                   \* where criticize.main stands
    readme_content,        \* main's locals, <<>> until assigned
    git_log_content,
    file_tree_content,
    staged_diff_content,
    system_prompt,
    ai_response,
    diffRun,               \* what subprocess.run did for the diff command
    apiCalls,              \* calls of client.models.generate_content
    stdoutA,               \* lines printed to standard output
    stderrA,               \* lines printed to standard error
    exitStatus             \* the process's exit status once apc = "exit"

varsA == <<env, apc, readme_content, git_log_content, file_tree_content,
           staged_diff_content, system_prompt, ai_response, diffRun, apiCalls,
           stdoutA, stderrA, exitStatus>>

vars == <<varsB, varsA>>

\* ------------------------------------------------------------ Flow B data

\* The prompts of main, in order.
MainPrompts ==
    << "Tell me a joke about a developer who is trying to center a div.",
       "Write a short story about a rubber duck who is having an existential crisis.",
       "Explain the meaning of life in one sentence, but make it sound like a threat.",
       "Write a passive-aggressive error message for a user who forgot to save their work." >>

\* Texts the API delivers as chunk.text. None of them begins with "Error: ".
ChunkTexts == {<<"a">>, <<"b">>}

\* str(e) of the exceptions the API call can raise.
Errors == {"boom"}

\* The indices enumerate(prompts) assigns: 0 .. N-1.
Tasks == 0 .. (Len(prompts) - 1)

\* Label with the index printed as it is.
LabelOffByOne(index) == index

\* f"Prompt {index + 1}: ..." and the header and end marker carry index + 1.
Label(index) == index + 1

\* print(f"--- Prompt {index + 1}: {prompt} ---")
HeaderLine(index, prompt) == [kind |-> "header", num |-> Label(index), text |-> <<prompt>>]

\* print(f"Prompt {index + 1}: {chunk}", end="", flush=True)
FragLine(index, chunk) == [kind |-> "frag", num |-> Label(index), text |-> chunk]

\* print(f"\n--- End of Prompt {index + 1} ---\n")
EndLine(index) == [kind |-> "end", num |-> Label(index), text |-> <<>>]

\* print(f"An error occurred while generating text: {e}")
DiagLine(e) == [kind |-> "diag", num |-> 0, text |-> <<"An error occurred while generating text: ", e>>]

\* ErrorFragment without its prefix.
ErrorFragmentBare(e) == <<e>>

\* f"Error: {e}"
ErrorFragment(e) == <<"Error: ", e>>

\* ---------------------------------------------------------- Flow B steps

\* Flow A does not run in this specification.
IdleA ==
    /\ env = [git |-> TRUE, repo |-> TRUE, readme |-> [kind |-> "missing"],
              gemini |-> [kind |-> "missing"], tree |-> {}]
    /\ apc = "idle"
    /\ readme_content = <<>>
    /\ git_log_content = <<>>
    /\ file_tree_content = <<>>
    /\ staged_diff_content = <<>>
    /\ system_prompt = <<>>
    /\ ai_response = <<>>
    /\ diffRun = [kind |-> "none"]
    /\ apiCalls = 0
    /\ stdoutA = <<>>
    /\ stderrA = <<>>
    /\ exitStatus = 0

InitB ==
    /\ IdleA
    /\ prompts \in {SubSeq(MainPrompts, 1, n) : n \in 0..MaxPrompts}
    /\ pgpc = "create"
    /\ ready = <<>>
    /\ running = <<>>
    /\ pc = [i \in Tasks |-> "created"]
    /\ gen = [i \in Tasks |-> "start"]
    /\ exc = [i \in Tasks |-> "none"]
    /\ delivered = [i \in Tasks |-> <<>>]
    /\ yielded = [i \in Tasks |-> <<>>]
    /\ out = <<>>

\* tasks = [asyncio.create_task(stream_and_print(processor, prompt, i)) ...]:
\* every task is queued on the loop in list order; none runs yet, since
\* parallel_generate has not awaited.
CreateTasks ==
    /\ pgpc = "create"
    /\ ready' = [k \in 1..Len(prompts) |-> k - 1]
    /\ pgpc' = "gather"
    /\ UNCHANGED <<prompts, running, pc, gen, exc, delivered, yielded, out>>
    /\ UNCHANGED varsA

\* GatherDone satisfied by the first task to finish.
GatherDoneAny == \E i \in Tasks : pc[i] = "done"

\* What gather waits for: every task finished.
GatherDone == \A i \in Tasks : pc[i] = "done"

\* await asyncio.gather(*tasks): with no task the future gather returns is
\* already done and the await does not suspend; otherwise parallel_generate
\* suspends and the loop takes over.
Gather ==
    /\ pgpc = "gather"
    /\ pgpc' = IF Len(prompts) = 0 THEN "returned" ELSE "waiting"
    /\ UNCHANGED <<prompts, ready, running, pc, gen, exc, delivered, yielded, out>>
    /\ UNCHANGED varsA

\* The event loop pops the next ready task when nothing is running.
RunNext ==
    /\ pgpc = "waiting"
    /\ running = <<>>
    /\ ready # <<>>
    /\ running' = <<Head(ready)>>
    /\ ready' = Tail(ready)
    /\ pc' = [pc EXCEPT ![Head(ready)] = "header"]
    /\ UNCHANGED <<prompts, pgpc, gen, exc, delivered, yielded, out>>
    /\ UNCHANGED varsA

\* print(f"--- Prompt {index + 1}: {prompt} ---"), then the async for calls
\* __anext__ on the generator.
PrintHeader(i) ==
    /\ running = <<i>>
    /\ pc[i] = "header"
    /\ out' = Append(out, HeaderLine(i, prompts[i + 1]))
    /\ pc' = [pc EXCEPT ![i] = "anext"]
    /\ UNCHANGED <<prompts, pgpc, ready, running, gen, exc, delivered, yielded>>
    /\ UNCHANGED varsA

\* response = self.client.models.generate_content(...): returns the
\* iterator or raises.
GenerateContent(i) ==
    /\ running = <<i>>
    /\ pc[i] = "anext"
    /\ gen[i] = "start"
    /\ \/ /\ gen' = [gen EXCEPT ![i] = "iter"]
          /\ UNCHANGED exc
       \/ \E e \in Errors :
             /\ exc' = [exc EXCEPT ![i] = e]
             /\ gen' = [gen EXCEPT ![i] = "except"]
    /\ UNCHANGED <<prompts, pgpc, ready, running, pc, delivered, yielded, out>>
    /\ UNCHANGED varsA

\* for chunk in response: yield chunk.text -- the API delivers a chunk, ends
\* the response, or raises. The loop is a plain for inside the generator: it
\* holds the thread while it waits.
NextChunk(i) ==
    /\ running = <<i>>
    /\ pc[i] = "anext"
    /\ gen[i] = "iter"
    /\ \/ \E t \in ChunkTexts :
             /\ Len(delivered[i]) < MaxFrags
             /\ delivered' = [delivered EXCEPT ![i] = Append(@, t)]
             /\ yielded' = [yielded EXCEPT ![i] = Append(@, t)]
             /\ gen' = [gen EXCEPT ![i] = "yield70"]
             /\ pc' = [pc EXCEPT ![i] = "print"]
             /\ UNCHANGED exc
       \/ /\ gen' = [gen EXCEPT ![i] = "closed"]
          /\ pc' = [pc EXCEPT ![i] = "end"]
          /\ UNCHANGED <<exc, delivered, yielded>>
       \/ \E e \in Errors :
             /\ exc' = [exc EXCEPT ![i] = e]
             /\ gen' = [gen EXCEPT ![i] = "except"]
             /\ UNCHANGED <<pc, delivered, yielded>>
    /\ UNCHANGED <<prompts, pgpc, ready, running, out>>
    /\ UNCHANGED varsA

\* except Exception as e: print(...); yield f"Error: {e}"
Except(i) ==
    /\ running = <<i>>
    /\ pc[i] = "anext"
    /\ gen[i] = "except"
    /\ out' = Append(out, DiagLine(exc[i]))
    /\ yielded' = [yielded EXCEPT ![i] = Append(@, ErrorFragment(exc[i]))]
    /\ gen' = [gen EXCEPT ![i] = "yield77"]
    /\ pc' = [pc EXCEPT ![i] = "print"]
    /\ UNCHANGED <<prompts, pgpc, ready, running, exc, delivered>>
    /\ UNCHANGED varsA

\* print(f"Prompt {index + 1}: {chunk}", end="", flush=True), then the
\* async for calls __anext__ again.
PrintChunk(i) ==
    /\ running = <<i>>
    /\ pc[i] = "print"
    /\ out' = Append(out, FragLine(i, yielded[i][Len(yielded[i])]))
    /\ pc' = [pc EXCEPT ![i] = "anext"]
    /\ UNCHANGED <<prompts, pgpc, ready, running, gen, exc, delivered, yielded>>
    /\ UNCHANGED varsA

\* __anext__ resumes the generator behind its yield: back into the for loop
\* (line 70), or off the end of the except block (line 77), which ends the
\* async for.
Resume(i) ==
    /\ running = <<i>>
    /\ pc[i] = "anext"
    /\ \/ /\ gen[i] = "yield70"
          /\ gen' = [gen EXCEPT ![i] = "iter"]
          /\ UNCHANGED pc
       \/ /\ gen[i] = "yield77"
          /\ gen' = [gen EXCEPT ![i] = "closed"]
          /\ pc' = [pc EXCEPT ![i] = "end"]
    /\ UNCHANGED <<prompts, pgpc, ready, running, exc, delivered, yielded, out>>
    /\ UNCHANGED varsA

\* PrintEnd with the end marker lost on a stream that failed.
PrintEndUnlessFailed(i) ==
    /\ running = <<i>>
    /\ pc[i] = "end"
    /\ out' = IF exc[i] = "none" THEN Append(out, EndLine(i)) ELSE out
    /\ pc' = [pc EXCEPT ![i] = "done"]
    /\ running' = <<>>
    /\ UNCHANGED <<prompts, pgpc, ready, gen, exc, delivered, yielded>>
    /\ UNCHANGED varsA

\* print(f"\n--- End of Prompt {index + 1} ---\n"); the coroutine returns and
\* the loop gets the thread back.
PrintEnd(i) ==
    /\ running = <<i>>
    /\ pc[i] = "end"
    /\ out' = Append(out, EndLine(i))
    /\ pc' = [pc EXCEPT ![i] = "done"]
    /\ running' = <<>>
    /\ UNCHANGED <<prompts, pgpc, ready, gen, exc, delivered, yielded>>
    /\ UNCHANGED varsA

\* gather's future completes and parallel_generate returns.
Return ==
    /\ pgpc = "waiting"
    /\ running = <<>>
    /\ GatherDone
    /\ pgpc' = "returned"
    /\ UNCHANGED <<prompts, ready, running, pc, gen, exc, delivered, yielded, out>>
    /\ UNCHANGED varsA

NextB ==
    \/ CreateTasks
    \/ Gather
    \/ RunNext
    \/ \E i \in Tasks : PrintHeader(i)
    \/ \E i \in Tasks : GenerateContent(i)
    \/ \E i \in Tasks : NextChunk(i)
    \/ \E i \in Tasks : Except(i)
    \/ \E i \in Tasks : PrintChunk(i)
    \/ \E i \in Tasks : Resume(i)
    \/ \E i \in Tasks : PrintEnd(i)
    \/ Return

SpecB == InitB /\ [][NextB]_vars

\* ------------------------------------------------------------ Flow A data

\* str.strip() removes these.
Whitespace == {" ", "\n"}

\* The atoms in which the substring "Error" occurs.
ErrorAtoms == {"Error running command '", "Error: Command '", "+raise ValueError('x')"}

\* The atoms in which the substring "not a git repository" occurs.
NotRepoAtoms == {"not a git repository (or any of the parent directories): .git",
                 "+# fixes 'fatal: not a git repository'"}

\* needle in text, for the two needles main looks for.
Contains(text, atoms) == \E k \in 1..Len(text) : text[k] \in atoms

\* not text.strip()
Blank(text) == \A k \in 1..Len(text) : text[k] \in Whitespace

\* a or b, on strings: the empty string is falsy.
Or(a, b) == IF a # <<>> THEN a ELSE b

\* ['git', 'diff', '--staged', '-U10']
DiffCommand == <<"git", "diff", "--staged", "-U10">>

\* ['git', 'log', '-n', '15', '--pretty=format:"%s"']
LogCommand == <<"git", "log", "-n", "15", "--pretty=format:\"%s\"">>

\* What git diff --staged writes to its standard output when it succeeds.
DiffOutputs ==
    { <<>>,
      <<"\n", " ">>,
      <<"diff --git a/x.py b/x.py", "\n", "+x = 1">>,
      <<"diff --git a/x.py b/x.py", "\n", "+raise ValueError('x')">>,
      <<"diff --git a/FAQ b/FAQ", "\n", "+# fixes 'fatal: not a git repository'">> }

\* What git log writes when it succeeds.
LogOutputs == { <<>>, <<"\"initial commit\"">> }

\* Standard error of git log outside a repository.
LogNotRepoStderr ==
    { <<"fatal: ", "not a git repository (or any of the parent directories): .git">> }

\* Standard error of git diff --staged outside a repository: the same, or,
\* from a git that falls back to its --no-index form there, a usage error.
NotRepoStderr ==
    LogNotRepoStderr
    \cup { <<"warning: Not a git repository. Use --no-index to compare two paths">>,
           <<"error: unknown option `staged'">> }

\* Standard error of a git that fails for another reason.
OtherStderr == { <<"fatal: index file corrupt">> }

\* str(e) of an exception of subprocess.run other than FileNotFoundError.
RunErrors == {"[Errno 13] Permission denied: 'git'"}

\* What subprocess.run(command, capture_output=True, text=True, check=False)
\* can do in environment e, given what the command writes on success and what
\* it writes to standard error outside a repository.
SubprocessRun(e, outputs, notRepo) ==
    IF ~e.git
    THEN {[kind |-> "notfound"]}
    ELSE {[kind |-> "exception", msg |-> m] : m \in RunErrors}
         \cup (IF e.repo
                THEN {[kind |-> "exit", returncode |-> 0, stdout |-> o, stderr |-> <<>>] :
                         o \in outputs}
                     \cup {[kind |-> "exit", returncode |-> 1, stdout |-> <<>>, stderr |-> x] :
                              x \in OtherStderr}
                ELSE {[kind |-> "exit", returncode |-> 128, stdout |-> <<>>, stderr |-> x] :
                         x \in notRepo})

\* run_command, applied to what subprocess.run did.
run_command(command, r) ==
    CASE r.kind = "exit" ->
            IF r.returncode # 0
            THEN <<"Error running command '">> \o command \o <<"':\n">> \o r.stderr
            ELSE r.stdout
      [] r.kind = "notfound" ->
            <<"Error: Command '", command[1], "' not found. Is it installed and in your PATH?">>
      [] r.kind = "exception" -> <<"An unexpected error occurred: ", r.msg>>

\* A file of the working directory: absent, unreadable, or its content.
FileStates ==
    { [kind |-> "missing"], [kind |-> "unreadable"],
      [kind |-> "file", content |-> <<>>],
      [kind |-> "file", content |-> <<"# Project">>] }

\* get_file_content(file_path), applied to the file's state.
get_file_content(file_path, f) ==
    CASE f.kind = "file" -> f.content
      [] f.kind = "missing" -> <<"Warning: File not found: ", file_path>>
      [] f.kind = "unreadable" ->
            <<"Warning: Could not read file ", file_path, ": ", "[Errno 13] Permission denied">>

\* The files os.walk(".") meets, in walk order, each with its directory path.
WalkOrder ==
    << [root |-> <<".">>, name |-> "a.py"],
       [root |-> <<".", ".git">>, name |-> "HEAD"],
       [root |-> <<".", "src">>, name |-> "b.py"] >>

\* ignore_dirs
ignore_dirs == {".git", "node_modules", "__pycache__", "dist", "build"}

\* get_file_tree on a working directory holding the files `present`: the
\* paths whose directories are all kept, joined with "\n".
RECURSIVE TreeLines(_, _)
TreeLines(k, present) ==
    IF k > Len(WalkOrder) THEN <<>>
    ELSE LET f == WalkOrder[k]
             kept == /\ k \in present
                     /\ \A d \in 1..Len(f.root) : f.root[d] \notin ignore_dirs
             rest == TreeLines(k + 1, present)
         IN  IF ~kept THEN rest
             ELSE IF rest = <<>> THEN f.root \o <<f.name>>
             ELSE f.root \o <<f.name, "\n">> \o rest

get_file_tree(present) == TreeLines(1, present)

\* "No overview document found."
Placeholder == <<"No overview document found.">>

\* The f-string of main: fixed text around the four slots.
BuildPrompt(readme, log, tree, diff) ==
    << <<"You are a world-class senior software engineer ... 1. Project Overview">>,
       readme,
       <<"2. Recent Commit History (last 15 commits):">>,
       log,
       <<"3. Project File Tree:">>,
       tree,
       <<"4. Staged Git Diff (with 10 lines of context):">>,
       diff,
       <<"YOUR TASK: ... # AI Code Criticism Report ...">> >>

\* What client.models.generate_content returns as response.text, or raises.
ApiResults == { [kind |-> "text", text |-> <<"# AI Code Criticism Report">>],
                [kind |-> "raise", msg |-> "503 UNAVAILABLE"] }

\* ---------------------------------------------------------- Flow A steps

\* Flow B does not run in this specification.
IdleB ==
    /\ prompts = <<>>
    /\ pgpc = "idle"
    /\ ready = <<>>
    /\ running = <<>>
    /\ pc = <<>>
    /\ gen = <<>>
    /\ exc = <<>>
    /\ delivered = <<>>
    /\ yielded = <<>>
    /\ out = <<>>

InitA ==
    /\ IdleB
    /\ env \in [git : BOOLEAN, repo : BOOLEAN, readme : FileStates, gemini : FileStates,
                 tree : SUBSET (1..Len(WalkOrder))]
    /\ apc = "start"
    /\ readme_content = <<>>
    /\ git_log_content = <<>>
    /\ file_tree_content = <<>>
    /\ staged_diff_content = <<>>
    /\ system_prompt = <<>>
    /\ ai_response = <<>>
    /\ diffRun = [kind |-> "none"]
    /\ apiCalls = 0
    /\ stdoutA = <<>>
    /\ stderrA = <<>>
    /\ exitStatus = 0

\* readme_content = get_file_content("README.md") or get_file_content("GEMINI.md")
\*                  or "No overview document found."
ReadOverview ==
    /\ apc = "start"
    /\ stdoutA' = stdoutA \o <<"--- Running AI Criticism Agent (Phase 1) ---",
                               "Gathering project context...">>
    /\ readme_content' = Or(get_file_content("README.md", env.readme),
                            Or(get_file_content("GEMINI.md", env.gemini), Placeholder))
    /\ apc' = "log"
    /\ UNCHANGED <<env, git_log_content, file_tree_content, staged_diff_content,
                   system_prompt, ai_response, diffRun, apiCalls, stderrA, exitStatus>>
    /\ UNCHANGED varsB

\* git_log_content = get_git_log_subjects()
get_git_log_subjects ==
    /\ apc = "log"
    /\ \E r \in SubprocessRun(env, LogOutputs, LogNotRepoStderr) :
          git_log_content' = run_command(LogCommand, r)
    /\ apc' = "tree"
    /\ UNCHANGED <<env, readme_content, file_tree_content, staged_diff_content,
                   system_prompt, ai_response, diffRun, apiCalls, stdoutA, stderrA,
                   exitStatus>>
    /\ UNCHANGED varsB

\* file_tree_content = get_file_tree()
WalkTree ==
    /\ apc = "tree"
    /\ file_tree_content' = get_file_tree(env.tree)
    /\ apc' = "diff"
    /\ UNCHANGED <<env, readme_content, git_log_content, staged_diff_content,
                   system_prompt, ai_response, diffRun, apiCalls, stdoutA, stderrA,
                   exitStatus>>
    /\ UNCHANGED varsB

\* staged_diff_content = get_staged_diff_with_context()
get_staged_diff_with_context ==
    /\ apc = "diff"
    /\ \E r \in SubprocessRun(env, DiffOutputs, NotRepoStderr) :
          /\ diffRun' = r
          /\ staged_diff_content' = run_command(DiffCommand, r)
    /\ apc' = "check_repo"
    /\ UNCHANGED <<env, readme_content, git_log_content, file_tree_content,
                   system_prompt, ai_response, apiCalls, stdoutA, stderrA, exitStatus>>
    /\ UNCHANGED varsB

\* "not a git repository" in staged_diff_content
NotRepoCheck(text) == Contains(text, NotRepoAtoms)

\* NoChangesCheck without the test for "Error".
NoChangesCheckBlankOnly(text) == Blank(text)

\* NoChangesCheck without the test for a blank text.
NoChangesCheckErrorOnly(text) == Contains(text, ErrorAtoms)

\* not staged_diff_content.strip() or "Error" in staged_diff_content
NoChangesCheck(text) == Blank(text) \/ Contains(text, ErrorAtoms)

\* if "not a git repository" in staged_diff_content: print(..., file=sys.stderr);
\* sys.exit(1)
CheckRepository ==
    /\ apc = "check_repo"
    /\ IF NotRepoCheck(staged_diff_content)
       THEN /\ stderrA' = Append(stderrA,
                                 "Error: This script must be run within a Git repository.")
            /\ exitStatus' = 1
            /\ apc' = "exit"
       ELSE /\ apc' = "check_diff"
            /\ UNCHANGED <<stderrA, exitStatus>>
    /\ UNCHANGED <<env, readme_content, git_log_content, file_tree_content,
                   staged_diff_content, system_prompt, ai_response, diffRun, apiCalls,
                   stdoutA>>
    /\ UNCHANGED varsB

\* if not staged_diff_content.strip() or "Error" in staged_diff_content:
\* print(...); return
CheckDiff ==
    /\ apc = "check_diff"
    /\ IF NoChangesCheck(staged_diff_content)
       THEN /\ stdoutA' = Append(stdoutA, "No staged changes found or error retrieving diff. Add files with 'git add' before running.")
            /\ apc' = "exit"
       ELSE /\ apc' = "prompt"
            /\ UNCHANGED stdoutA
    /\ UNCHANGED <<env, readme_content, git_log_content, file_tree_content,
                   staged_diff_content, system_prompt, ai_response, diffRun, apiCalls,
                   stderrA, exitStatus>>
    /\ UNCHANGED varsB

\* system_prompt = f"""..."""
ConstructPrompt ==
    /\ apc = "prompt"
    /\ system_prompt' = BuildPrompt(readme_content, git_log_content, file_tree_content,
                                    staged_diff_content)
    /\ apc' = "api"
    /\ UNCHANGED <<env, readme_content, git_log_content, file_tree_content,
                   staged_diff_content, ai_response, diffRun, apiCalls, stdoutA, stderrA,
                   exitStatus>>
    /\ UNCHANGED varsB

\* ai_response = get_ai_criticism(system_prompt): one call of the API, whose
\* exception becomes the returned text.
get_ai_criticism ==
    /\ apc = "api"
    /\ stdoutA' = Append(stdoutA, "Generating AI criticism... (this may take a moment)")
    /\ apiCalls' = apiCalls + 1
    /\ \E r \in ApiResults :
          ai_response' =
             IF r.kind = "text" THEN r.text
             ELSE <<"An error occurred while communicating with the Gemini API: ", r.msg>>
    /\ apc' = "report"
    /\ UNCHANGED <<env, readme_content, git_log_content, file_tree_content,
                   staged_diff_content, system_prompt, diffRun, stderrA, exitStatus>>
    /\ UNCHANGED varsB

\* The banner and print(ai_response); main returns.
PrintReport ==
    /\ apc = "report"
    /\ stdoutA' = stdoutA \o <<"=== AI Code Criticism Report ===">> \o ai_response
                           \o <<"===">>
    /\ apc' = "exit"
    /\ UNCHANGED <<env, readme_content, git_log_content, file_tree_content,
                   staged_diff_content, system_prompt, ai_response, diffRun, apiCalls,
                   stderrA, exitStatus>>
    /\ UNCHANGED varsB

NextA ==
    \/ ReadOverview
    \/ get_git_log_subjects
    \/ WalkTree
    \/ get_staged_diff_with_context
    \/ CheckRepository
    \/ CheckDiff
    \/ ConstructPrompt
    \/ get_ai_criticism
    \/ PrintReport

SpecA == InitA /\ [][NextA]_vars

\* ------------------------------------------------------ properties, Flow B

\* The lines of `out` that carry task i's number, in printing order.
LinesOf(i) ==
    SelectSeq(out, LAMBDA l : l.kind \in {"header", "frag", "end"} /\ l.num = i + 1)

\* The texts of the fragments printed under task i's label, in printing order.
PrintedFragments(i) ==
    LET fr == SelectSeq(out, LAMBDA l : l.kind = "frag" /\ l.num = i + 1)
    IN  [k \in 1..Len(fr) |-> fr[k].text]

\* The end markers printed for task i.
EndMarkers(i) == {k \in 1..Len(out) : out[k].kind = "end" /\ out[k].num = i + 1}

BeginsWithError(fragment) == Len(fragment) > 0 /\ fragment[1] = "Error: "

ErrorFragments(fragments) == {k \in 1..Len(fragments) : BeginsWithError(fragments[k])}

IsPrefix(a, b) == Len(a) <= Len(b) /\ \A k \in 1..Len(a) : a[k] = b[k]

\* C1: parallel_generate has returned only when every task has exhausted its
\* stream and printed its end marker; with no prompt it never suspends and
\* nothing is started or printed.
C1_ReturnsAfterAllTasks ==
    /\ pgpc = "returned" =>
          \A i \in Tasks : pc[i] = "done" /\ gen[i] = "closed" /\ EndMarkers(i) # {}
    /\ Len(prompts) = 0 => pgpc # "waiting" /\ ready = <<>> /\ running = <<>> /\ out = <<>>

\* C1 witness: two prompts, the first stream failed, the second did not, and
\* parallel_generate has returned.
C1_Witness ==
    /\ pgpc = "returned"
    /\ Len(prompts) = 2
    /\ exc[0] # "none"
    /\ exc[1] = "none"

\* C2: a stream that has ended produced the fragments the API delivered, in
\* order, followed by exactly one fragment beginning with "Error: " if the
\* API call failed and by nothing if it did not; while it runs, what it has
\* produced is a prefix of that.
C2_StreamEndsWithOneError ==
    \A i \in Tasks :
        LET whole == delivered[i] \o
                     (IF exc[i] # "none" THEN << <<"Error: ", exc[i]>> >> ELSE <<>>)
        IN  /\ IsPrefix(yielded[i], whole)
            /\ gen[i] = "closed" =>
                  /\ yielded[i] = whole
                  /\ Cardinality(ErrorFragments(yielded[i])) = (IF exc[i] # "none" THEN 1 ELSE 0)
                  /\ pc[i] \in {"end", "done"}

\* C2 witness: one stream failed before its first fragment, another after two
\* fragments, and both have ended.
C2_Witness ==
    \E i, j \in Tasks :
        /\ gen[i] = "closed" /\ exc[i] # "none" /\ Len(delivered[i]) = 0
        /\ gen[j] = "closed" /\ exc[j] # "none" /\ Len(delivered[j]) = 2

\* C3: once parallel_generate has returned there is exactly one end marker
\* per index 1..N and N in all, a task whose stream did not fail has printed
\* exactly the fragments the API delivered to it, and a task whose stream
\* failed has printed exactly one fragment beginning with "Error: ".
C3_FailureLeavesSiblingsAlone ==
    pgpc = "returned" =>
        /\ \A i \in Tasks : Cardinality(EndMarkers(i)) = 1
        /\ Cardinality({k \in 1..Len(out) : out[k].kind = "end"}) = Len(prompts)
        /\ \A i \in Tasks :
              IF exc[i] = "none"
              THEN PrintedFragments(i) = delivered[i]
              ELSE Cardinality(ErrorFragments(PrintedFragments(i))) = 1

\* C3 witness: of two tasks one failed in mid-stream and the other printed
\* two fragments of a stream that did not fail.
C3_Witness ==
    /\ pgpc = "returned"
    /\ \E i, j \in Tasks :
          /\ exc[i] # "none" /\ Len(delivered[i]) = 1
          /\ exc[j] = "none" /\ Len(delivered[j]) = 2

\* C8: each time a task awaits the next fragment of its stream it has yielded
\* control, so the event loop can start a task that is ready (whose header
\* would then be printed between two fragments of the waiting task).
C8_YieldsAtEachFragment ==
    \A i \in Tasks :
        (pc[i] = "anext" /\ gen[i] = "yield70" /\ ready # <<>>) => ENABLED RunNext

\* What the code does instead: the lines of one task are never separated by a
\* line of another task.
C8_Sequential ==
    \A a, b, c \in 1..Len(out) :
        (a < b /\ b < c /\ out[a].kind # "diag" /\ out[c].kind # "diag"
           /\ out[a].num = out[c].num)
        => (out[b].kind = "diag" \/ out[b].num = out[a].num)

\* C9: the lines carrying task i's number are, in printing order, its header
\* with its prompt, then the fragments its stream produced, each once and in
\* the stream's order, then its end marker; at any moment they are a prefix
\* of that, and the whole of it once the task is done.
C9_TaskOutputInOrder ==
    \A i \in Tasks :
        LET whole == << [kind |-> "header", num |-> i + 1, text |-> <<prompts[i + 1]>>] >>
                     \o [k \in 1..Len(yielded[i]) |->
                            [kind |-> "frag", num |-> i + 1, text |-> yielded[i][k]]]
                     \o << [kind |-> "end", num |-> i + 1, text |-> <<>>] >>
        IN  /\ IsPrefix(LinesOf(i), whole)
            /\ pc[i] = "done" => LinesOf(i) = whole
            /\ pc[i] = "created" => LinesOf(i) = <<>>

\* C9 witness: both of two tasks are done, each after two fragments, one of
\* them with an error fragment behind them.
C9_Witness ==
    /\ Len(prompts) = 2
    /\ \A i \in Tasks : pc[i] = "done" /\ Len(delivered[i]) = 2
    /\ exc[0] = "none"
    /\ exc[1] # "none"

\* ------------------------------------------------------ properties, Flow A

\* The diff command ran and did not yield a diff.
DiffNotObtained == diffRun.kind = "exit" /\ diffRun.returncode # 0

\* The report banner was printed.
ReportProduced == \E k \in 1..Len(stdoutA) : stdoutA[k] = "=== AI Code Criticism Report ==="

\* The "no staged changes" message was printed.
NoChangesPrinted ==
    \E k \in 1..Len(stdoutA) :
        stdoutA[k] = "No staged changes found or error retrieving diff. Add files with 'git add' before running."

\* C4: with the git binary absent the run ends with a non-zero exit status
\* and a message on the diagnostic stream, and the API is not called.
C4_ToolAbsentExitsNonZero ==
    (apc = "exit" /\ diffRun.kind = "notfound") =>
        exitStatus # 0 /\ stderrA # <<>> /\ apiCalls = 0

\* C5: a run ends with exit status 0 only if a report was produced or the
\* staged diff was empty, and a run whose diff command exited non-zero ends
\* with a non-zero exit status, a message on the diagnostic stream and no
\* API call. Stated for the runs that find the git binary (its absence is
\* C4's case).
C5_DiffFailureExitsNonZero ==
    (apc = "exit" /\ env.git) =>
        /\ exitStatus = 0 =>
              \/ ReportProduced
              \/ diffRun.kind = "exit" /\ diffRun.returncode = 0 /\ Blank(diffRun.stdout)
        /\ DiffNotObtained => exitStatus # 0 /\ stderrA # <<>> /\ apiCalls = 0

\* C6: once the diff command has returned an empty or all-whitespace text,
\* the API is never called and the prompt is never built, and the run ends
\* with the "no staged changes" message and exit status 0.
C6_EmptyDiffNoReview ==
    (diffRun.kind # "none" /\ Blank(staged_diff_content)) =>
        /\ apiCalls = 0
        /\ apc \in {"check_repo", "check_diff", "exit"}
        /\ apc = "exit" => NoChangesPrinted /\ exitStatus = 0 /\ ~ReportProduced
                            /\ stderrA = <<>>

\* C6 witness: a run that ended on an all-whitespace diff, with an overview
\* document, a commit log and a file tree that are not empty.
C6_Witness ==
    /\ apc = "exit"
    /\ diffRun.kind = "exit"
    /\ diffRun.returncode = 0
    /\ diffRun.stdout = <<"\n", " ">>
    /\ readme_content = <<"# Project">>
    /\ git_log_content # <<>>
    /\ file_tree_content # <<>>

\* C7: when neither README.md nor GEMINI.md can be read, the overview slot
\* of the prompt holds "No overview document found.".
C7_PlaceholderWhenNoOverview ==
    (system_prompt # <<>> /\ env.readme.kind # "file" /\ env.gemini.kind # "file") =>
        system_prompt[2] = <<"No overview document found.">>

====
